---- MODULE Spec2Model ----
(***************************************************************************)
(* Model of the VibezLive stream-settlement program                        *)
(* (programs/vibezlive-program/src/lib.rs).                                *)
(*                                                                         *)
(* Every instruction of the program is one action.  For each instruction   *)
(* X, the operator X_result gives the outcome of a call ("Ok" or the       *)
(* error it returns), following the order of the checks in the account     *)
(* validation (#[derive(Accounts)]) and then in the handler.  An           *)
(* instruction runs as one atomic transaction: when it returns an error,   *)
(* every account keeps the value it had before the call.                   *)
(*                                                                         *)
(* Integer widths are scaled: a 64-bit word is modelled by a 20-bit word,  *)
(* so that checked arithmetic can     *)
(* overflow within the range of the model checker's integers.              *)
(*                                                                         *)
(* The program has no instruction that creates a Donation account          *)
(* (Donate declares it `mut`, not `init`); the Donation accounts that      *)
(* donate writes to are supplied by the environment and exist from the     *)
(* start, one per (donor, stream key), with donor and stream already set.  *)
(***************************************************************************)
EXTENDS Integers, Sequences, FiniteSets, TLC

VARIABLES now, platform_state, stream, escrow, wallet, donation,
          viewer_reward, dispute, deposited, creator_paid, calculated

vars == <<now, platform_state, stream, escrow, wallet, donation,
          viewer_reward, dispute, deposited, creator_paid, calculated>>

accounts == <<platform_state, stream, escrow, wallet, donation,
              viewer_reward, dispute, deposited, creator_paid, calculated>>

---------------------------------------------------------------------------
(* Bounds of the model *)

MaxTime == 1

U64_MAX == 1048575

I64_MAX == 524287

InitialBalance == 1000

---------------------------------------------------------------------------
(* Identities and account keys *)

Users == {"u1", "u2"}

StreamIds == {"s1", "s2"}

PlatformAccts == {"p1", "p2"}

DefaultPubkey == "default"

CanonicalBump == 255

---------------------------------------------------------------------------
(* Checked arithmetic (u64 / i64) *)

Overflow == -1

checked_add_u64(a, b) == IF a + b > U64_MAX THEN Overflow ELSE a + b

(* A multiplication that wraps modulo 2^64. *)
checked_mul_u64_wrapping(a, b) == (a * b) % (U64_MAX + 1)

checked_mul_u64(a, b) == IF a * b > U64_MAX THEN Overflow ELSE a * b

checked_sub_u64(a, b) == IF a < b THEN Overflow ELSE a - b

checked_div_u64(a, b) == IF b = 0 THEN Overflow ELSE a \div b

i64_add_overflows(a, b) == a + b > I64_MAX \/ a + b < -I64_MAX - 1

---------------------------------------------------------------------------
(* Initial state: no platform, no stream; every user holds InitialBalance  *)
(* tokens of the mint; the clock is at 0.                                  *)

Donation(d, s) == [donor |-> d, stream |-> s, amount |-> 0, timestamp |-> 0]

Init ==
    /\ now = 0
    /\ platform_state = <<>>
    /\ stream = <<>>
    /\ escrow = <<>>
    /\ wallet = [u \in Users |-> InitialBalance]
    /\ donation = [k \in Users \X StreamIds |-> Donation(k[1], k[2])]
    /\ viewer_reward = <<>>
    /\ dispute = <<>>
    /\ deposited = [s \in StreamIds |-> 0]
    /\ creator_paid = [s \in StreamIds |-> 0]
    /\ calculated = [s \in StreamIds |-> 0]

(* The ledger clock (Clock::get()?.unix_timestamp) advances. *)
Tick ==
    /\ now < MaxTime
    /\ now' = now + 1
    /\ UNCHANGED accounts

---------------------------------------------------------------------------
(* initialize_platform (lib.rs 10-19, accounts 411-424) *)

initialize_platform_result(authority, p, platform_fee) ==
    IF p \in DOMAIN platform_state
    THEN "AccountAlreadyInUse"
    ELSE IF ~(platform_fee <= 100)
    THEN "InvalidFeePercentage"
    ELSE "Ok"

initialize_platform(authority, p, platform_fee) ==
    IF initialize_platform_result(authority, p, platform_fee) # "Ok"
    THEN UNCHANGED vars
    ELSE
        /\ platform_state' = platform_state @@
               (p :> [authority |-> authority,
                      platform_fee |-> platform_fee,
                      stream_count |-> 0])
        /\ UNCHANGED <<now, stream, escrow, wallet, donation, viewer_reward,
                       dispute, deposited, creator_paid, calculated>>

---------------------------------------------------------------------------
(* start_stream (lib.rs 21-61, accounts 426-464) *)

NewStream(stream_id, creator, creator_percentage, min_watch_percentage, min_stream_duration, bumps) ==
    [id |-> stream_id,
     creator |-> creator,
     start_time |-> now,
     end_time |-> 0,
     is_active |-> TRUE,
     creator_percentage |-> creator_percentage,
     min_watch_percentage |-> min_watch_percentage,
     min_stream_duration |-> min_stream_duration,
     total_donations |-> 0,
     escrow_account |-> stream_id,
     bumps |-> bumps]

(* A start_stream without the two require! checks on the percentages. *)
start_stream_result_unvalidated(creator, p, authority, stream_id, creator_percentage, min_watch_percentage, min_stream_duration, bumps) ==
    IF p \notin DOMAIN platform_state
    THEN "AccountNotInitialized"
    ELSE IF stream_id \in DOMAIN stream
    THEN "AccountAlreadyInUse"
    ELSE IF platform_state[p].authority # authority
    THEN "ConstraintHasOne"
    ELSE "Ok"

start_stream_result(creator, p, authority, stream_id, creator_percentage, min_watch_percentage, min_stream_duration, bumps) ==
    IF p \notin DOMAIN platform_state
    THEN "AccountNotInitialized"
    ELSE IF stream_id \in DOMAIN stream
    THEN "AccountAlreadyInUse"
    ELSE IF platform_state[p].authority # authority
    THEN "ConstraintHasOne"
    ELSE IF ~(creator_percentage <= 100)
    THEN "InvalidFeePercentage"
    ELSE IF ~(min_watch_percentage <= 100)
    THEN "InvalidWatchPercentage"
    ELSE "Ok"

start_stream(creator, p, authority, stream_id, creator_percentage, min_watch_percentage, min_stream_duration, bumps) ==
    IF start_stream_result(creator, p, authority, stream_id,
                           creator_percentage, min_watch_percentage,
                           min_stream_duration, bumps) # "Ok"
    THEN UNCHANGED vars
    ELSE
        /\ stream' = stream @@
               (stream_id :> NewStream(stream_id, creator, creator_percentage,
                                       min_watch_percentage,
                                       min_stream_duration, bumps))
        /\ escrow' = escrow @@ (stream_id :> 0)
        /\ platform_state' =
               [platform_state EXCEPT ![p].stream_count = @ + 1]
        /\ UNCHANGED <<now, wallet, donation, viewer_reward, dispute,
                       deposited, creator_paid, calculated>>

---------------------------------------------------------------------------
(* The custody primitive (anchor_spl::token::transfer).  The escrow token  *)
(* account's authority is the stream PDA; a transfer out of it is signed   *)
(* with the seeds [b"stream", id, stream.bumps.stream_bump], which derive  *)
(* the stream's address only when the stored bump is the canonical one.    *)

signer_seeds_ok(st) == st.bumps.stream_bump = CanonicalBump

(* A token program that does not look at the balance of the source. *)
transfer_result_unfunded(authority_signed, from_amount, to_amount, amount) ==
    IF ~authority_signed THEN "PrivilegeEscalation"
    ELSE IF to_amount + amount > U64_MAX THEN "TokenOverflow"
    ELSE "Ok"

transfer_result(authority_signed, from_amount, to_amount, amount) ==
    IF ~authority_signed THEN "PrivilegeEscalation"
    ELSE IF from_amount < amount THEN "InsufficientFunds"
    ELSE IF to_amount + amount > U64_MAX THEN "TokenOverflow"
    ELSE "Ok"

---------------------------------------------------------------------------
(* Checks and updates shared by the settlement and claim instructions *)

(* A settlement that does not look at the flag. *)
require_active_skipped(st) == TRUE

(* require!(stream.is_active, StreamInactive) and the same constraint of   *)
(* the accounts structs.                                                   *)
require_active(st) == st.is_active

(* A gate that opens one time unit early. *)
duration_met_early(st, t) ==
    t + 1 >= st.start_time + st.min_stream_duration

(* now >= start_time.checked_add(min_stream_duration) *)
duration_met(st, t) == t >= st.start_time + st.min_stream_duration

(* now >= start_time.checked_add(timeout_duration) *)
timeout_reached(st, t, timeout_duration) ==
    t >= st.start_time + timeout_duration

(* stream.is_active = false; stream.end_time = now *)
settle(st, t) == [st EXCEPT !.is_active = FALSE, !.end_time = t]

(* A claim that does not look at the flag. *)
reward_claimable_always(reward) == TRUE

(* require!(!viewer_reward.claimed, RewardAlreadyClaimed) *)
reward_claimable(reward) == ~reward.claimed

(* A claim that forgets to set the flag. *)
mark_claimed_forgotten(reward) == reward

(* viewer_reward.claimed = true *)
mark_claimed(reward) == [reward EXCEPT !.claimed = TRUE]

---------------------------------------------------------------------------
(* donate (lib.rs 63-107, accounts 466-497) *)

donate_result(donor, s, dk, from, e, amount) ==
    IF s \notin DOMAIN stream \/ e \notin DOMAIN escrow
    THEN "AccountNotInitialized"
    ELSE IF ~require_active(stream[s])
    THEN "StreamInactive"
    ELSE IF ~(donation[dk].donor = donor /\ donation[dk].stream = s)
    THEN "UnauthorizedAccess"
    ELSE IF from # donor
    THEN "UnauthorizedAccess"
    ELSE IF e # stream[s].escrow_account
    THEN "InvalidEscrowAccount"
    ELSE IF transfer_result(TRUE, wallet[from], escrow[e], amount) # "Ok"
    THEN transfer_result(TRUE, wallet[from], escrow[e], amount)
    ELSE IF checked_add_u64(stream[s].total_donations, amount) = Overflow
    THEN "MathOverflow"
    ELSE "Ok"

donate(donor, s, dk, from, e, amount) ==
    IF donate_result(donor, s, dk, from, e, amount) # "Ok"
    THEN UNCHANGED vars
    ELSE
        /\ wallet' = [wallet EXCEPT ![from] = @ - amount]
        /\ escrow' = [escrow EXCEPT ![e] = @ + amount]
        /\ stream' = [stream EXCEPT ![s].total_donations =
                          checked_add_u64(@, amount)]
        /\ donation' = [donation EXCEPT ![dk] =
                            [donor |-> donor, stream |-> s,
                             amount |-> amount, timestamp |-> now]]
        /\ deposited' = [deposited EXCEPT ![e] = @ + amount]
        /\ UNCHANGED <<now, platform_state, viewer_reward, dispute,
                       creator_paid, calculated>>

---------------------------------------------------------------------------
(* Signature gate (lib.rs 131-143, 859-876) *)

RECURSIVE viewer_bytes(_)
viewer_bytes(viewer_data) ==
    IF viewer_data = <<>> THEN <<>>
    ELSE <<Head(viewer_data).address,
           Head(viewer_data).watch_time % 256,
           Head(viewer_data).watch_time \div 256,
           Head(viewer_data).watch_percentage>>
         \o viewer_bytes(Tail(viewer_data))

create_signature_message(stream_id, viewer_data) ==
    <<stream_id>> \o viewer_bytes(viewer_data)

backend_signer(authority) == <<authority, "backend_signer">>

(* The body of verify_signature is `true`. *)
verify_signature(pubkey, message, signature) == TRUE

---------------------------------------------------------------------------
(* end_stream (lib.rs 109-231, accounts 499-534) *)

(* A filter that lets every viewer through. *)
eligible_all(viewer, st) == TRUE

eligible(viewer, st) == viewer.watch_percentage >= st.min_watch_percentage

RECURSIVE total_valid_watch_time(_, _)
total_valid_watch_time(viewer_data, st) ==
    IF viewer_data = <<>> THEN 0
    ELSE LET rest == total_valid_watch_time(Tail(viewer_data), st)
             v == Head(viewer_data)
         IN  IF rest = Overflow THEN Overflow
             ELSE IF eligible(v, st)
             THEN checked_add_u64(rest, v.watch_time)
             ELSE rest

(* A creator's share that rounds up. *)
creator_amount_rounded_up(st) ==
    LET m == checked_mul_u64(st.total_donations, st.creator_percentage)
    IN  IF m = Overflow THEN Overflow ELSE checked_div_u64(m + 99, 100)

creator_amount(st) ==
    LET m == checked_mul_u64(st.total_donations, st.creator_percentage)
    IN  IF m = Overflow THEN Overflow ELSE checked_div_u64(m, 100)

(* A viewers' pot that ignores the creator's share. *)
viewers_amount_whole(st) == st.total_donations

viewers_amount(st) == checked_sub_u64(st.total_donations, creator_amount(st))

viewer_reward_of(viewer, pot, total) ==
    LET m == checked_mul_u64(pot, viewer.watch_time)
    IN  IF m = Overflow THEN Overflow ELSE checked_div_u64(m, total)

(* The account created by `init` before the handler runs. *)
EmptyViewerReward ==
    [viewer |-> DefaultPubkey, stream |-> DefaultPubkey,
     amount |-> 0, claimed |-> FALSE]

(* The reward loop: every eligible viewer with a positive reward is        *)
(* written to the one viewer_reward account of the call.  The result is    *)
(* that account after the loop, and whether a checked operation failed.    *)
RECURSIVE reward_loop(_, _, _, _, _)
reward_loop(viewer_data, st, pot, total, acct) ==
    IF viewer_data = <<>> THEN [overflow |-> FALSE, acct |-> acct]
    ELSE LET v == Head(viewer_data)
             r == viewer_reward_of(v, pot, total)
         IN  IF ~eligible(v, st)
             THEN reward_loop(Tail(viewer_data), st, pot, total, acct)
             ELSE IF r = Overflow THEN [overflow |-> TRUE, acct |-> acct]
             ELSE IF r > 0
             THEN reward_loop(Tail(viewer_data), st, pot, total,
                              [viewer |-> v.address, stream |-> st.id,
                               amount |-> r, claimed |-> FALSE])
             ELSE reward_loop(Tail(viewer_data), st, pot, total, acct)

rewards_of(viewer_data, st) ==
    IF viewers_amount(st) > 0 /\ total_valid_watch_time(viewer_data, st) > 0
    THEN reward_loop(viewer_data, st, viewers_amount(st),
                     total_valid_watch_time(viewer_data, st),
                     EmptyViewerReward)
    ELSE [overflow |-> FALSE, acct |-> EmptyViewerReward]

(* The sum of the amounts of the RewardCalculated events the reward loop   *)
(* emits (one per eligible viewer with a positive reward).                 *)
RECURSIVE calculated_sum(_, _, _, _)
calculated_sum(viewer_data, st, pot, total) ==
    IF viewer_data = <<>> THEN 0
    ELSE LET v == Head(viewer_data)
             r == viewer_reward_of(v, pot, total)
         IN  (IF eligible(v, st) /\ r > 0 THEN r ELSE 0)
             + calculated_sum(Tail(viewer_data), st, pot, total)

rewards_calculated(viewer_data, st) ==
    IF viewers_amount(st) > 0 /\ total_valid_watch_time(viewer_data, st) > 0
    THEN calculated_sum(viewer_data, st, viewers_amount(st),
                        total_valid_watch_time(viewer_data, st))
    ELSE 0

end_stream_result(creator, s, p, e, to, viewer_data, backend_signature) ==
    IF s \notin DOMAIN stream \/ p \notin DOMAIN platform_state
       \/ e \notin DOMAIN escrow
    THEN "AccountNotInitialized"
    ELSE IF stream[s].creator # creator
    THEN "ConstraintHasOne"
    ELSE IF ~require_active(stream[s])
    THEN "StreamInactive"
    ELSE IF e # stream[s].escrow_account
    THEN "InvalidEscrowAccount"
    ELSE IF to # creator
    THEN "UnauthorizedAccess"
    ELSE IF i64_add_overflows(stream[s].start_time,
                              stream[s].min_stream_duration)
    THEN "MathOverflow"
    ELSE IF ~duration_met(stream[s], now)
    THEN "StreamDurationNotMet"
    ELSE IF ~verify_signature(
                 backend_signer(platform_state[p].authority),
                 create_signature_message(stream[s].id, viewer_data),
                 backend_signature)
    THEN "InvalidBackendSignature"
    ELSE IF total_valid_watch_time(viewer_data, stream[s]) = Overflow
            \/ creator_amount(stream[s]) = Overflow
            \/ viewers_amount(stream[s]) = Overflow
    THEN "MathOverflow"
    ELSE IF creator_amount(stream[s]) > 0
            /\ transfer_result(signer_seeds_ok(stream[s]), escrow[e],
                               wallet[to], creator_amount(stream[s])) # "Ok"
    THEN transfer_result(signer_seeds_ok(stream[s]), escrow[e],
                         wallet[to], creator_amount(stream[s]))
    ELSE IF rewards_of(viewer_data, stream[s]).overflow
    THEN "MathOverflow"
    ELSE "Ok"

end_stream(creator, s, p, e, to, viewer_data, backend_signature) ==
    IF end_stream_result(creator, s, p, e, to, viewer_data,
                         backend_signature) # "Ok"
    THEN UNCHANGED vars
    ELSE
        /\ escrow' = [escrow EXCEPT ![e] = @ - creator_amount(stream[s])]
        /\ wallet' = [wallet EXCEPT ![to] = @ + creator_amount(stream[s])]
        /\ creator_paid' =
               [creator_paid EXCEPT ![e] = @ + creator_amount(stream[s])]
        /\ viewer_reward' =
               Append(viewer_reward, rewards_of(viewer_data, stream[s]).acct)
        /\ stream' = [stream EXCEPT ![s] = settle(@, now)]
        /\ calculated' =
               [calculated EXCEPT ![s] =
                    rewards_calculated(viewer_data, stream[s])]
        /\ UNCHANGED <<now, platform_state, donation, dispute, deposited>>

---------------------------------------------------------------------------
(* claim_reward (lib.rs 233-271, accounts 536-568) *)

(* A claim that accepts any escrow token account. *)
claim_reward_result_any_escrow(viewer, s, r, e, to) ==
    IF s \notin DOMAIN stream \/ r \notin DOMAIN viewer_reward
       \/ e \notin DOMAIN escrow
    THEN "AccountNotInitialized"
    ELSE IF stream[s].is_active
    THEN "StreamStillActive"
    ELSE IF viewer_reward[r].viewer # viewer \/ viewer_reward[r].stream # s
    THEN "ConstraintHasOne"
    ELSE IF ~reward_claimable(viewer_reward[r])
    THEN "RewardAlreadyClaimed"
    ELSE IF to # viewer
    THEN "UnauthorizedAccess"
    ELSE IF transfer_result(signer_seeds_ok(stream[s]), escrow[e],
                            wallet[to], viewer_reward[r].amount) # "Ok"
    THEN transfer_result(signer_seeds_ok(stream[s]), escrow[e],
                         wallet[to], viewer_reward[r].amount)
    ELSE "Ok"

claim_reward_result(viewer, s, r, e, to) ==
    IF s \notin DOMAIN stream \/ r \notin DOMAIN viewer_reward
       \/ e \notin DOMAIN escrow
    THEN "AccountNotInitialized"
    ELSE IF stream[s].is_active
    THEN "StreamStillActive"
    ELSE IF viewer_reward[r].viewer # viewer \/ viewer_reward[r].stream # s
    THEN "ConstraintHasOne"
    ELSE IF ~reward_claimable(viewer_reward[r])
    THEN "RewardAlreadyClaimed"
    ELSE IF e # stream[s].escrow_account
    THEN "InvalidEscrowAccount"
    ELSE IF to # viewer
    THEN "UnauthorizedAccess"
    ELSE IF transfer_result(signer_seeds_ok(stream[s]), escrow[e],
                            wallet[to], viewer_reward[r].amount) # "Ok"
    THEN transfer_result(signer_seeds_ok(stream[s]), escrow[e],
                         wallet[to], viewer_reward[r].amount)
    ELSE "Ok"

claim_reward(viewer, s, r, e, to) ==
    IF claim_reward_result(viewer, s, r, e, to) # "Ok"
    THEN UNCHANGED vars
    ELSE
        /\ escrow' = [escrow EXCEPT ![e] = @ - viewer_reward[r].amount]
        /\ wallet' = [wallet EXCEPT ![to] = @ + viewer_reward[r].amount]
        /\ viewer_reward' = [viewer_reward EXCEPT ![r] = mark_claimed(@)]
        /\ UNCHANGED <<now, platform_state, stream, donation, dispute,
                       deposited, creator_paid, calculated>>

---------------------------------------------------------------------------
(* auto_settle_stream (lib.rs 273-326, accounts 570-594) *)

(* An auto-settlement that pays whatever token account the caller names. *)
auto_settle_stream_result_any_recipient(settler, s, e, to, timeout_duration) ==
    IF s \notin DOMAIN stream \/ e \notin DOMAIN escrow
    THEN "AccountNotInitialized"
    ELSE IF ~require_active(stream[s])
    THEN "StreamInactive"
    ELSE IF e # stream[s].escrow_account
    THEN "InvalidEscrowAccount"
    ELSE IF i64_add_overflows(stream[s].start_time, timeout_duration)
    THEN "MathOverflow"
    ELSE IF ~timeout_reached(stream[s], now, timeout_duration)
    THEN "TimeoutNotReached"
    ELSE IF stream[s].total_donations > 0
            /\ transfer_result(signer_seeds_ok(stream[s]), escrow[e],
                               wallet[to], stream[s].total_donations) # "Ok"
    THEN transfer_result(signer_seeds_ok(stream[s]), escrow[e],
                         wallet[to], stream[s].total_donations)
    ELSE "Ok"

auto_settle_stream_result(settler, s, e, to, timeout_duration) ==
    IF s \notin DOMAIN stream \/ e \notin DOMAIN escrow
    THEN "AccountNotInitialized"
    ELSE IF ~require_active(stream[s])
    THEN "StreamInactive"
    ELSE IF e # stream[s].escrow_account
    THEN "InvalidEscrowAccount"
    ELSE IF to # stream[s].creator
    THEN "UnauthorizedAccess"
    ELSE IF i64_add_overflows(stream[s].start_time, timeout_duration)
    THEN "MathOverflow"
    ELSE IF ~timeout_reached(stream[s], now, timeout_duration)
    THEN "TimeoutNotReached"
    ELSE IF stream[s].total_donations > 0
            /\ transfer_result(signer_seeds_ok(stream[s]), escrow[e],
                               wallet[to], stream[s].total_donations) # "Ok"
    THEN transfer_result(signer_seeds_ok(stream[s]), escrow[e],
                         wallet[to], stream[s].total_donations)
    ELSE "Ok"

auto_settle_stream(settler, s, e, to, timeout_duration) ==
    IF auto_settle_stream_result(settler, s, e, to, timeout_duration) # "Ok"
    THEN UNCHANGED vars
    ELSE
        /\ escrow' = [escrow EXCEPT ![e] = @ - stream[s].total_donations]
        /\ wallet' = [wallet EXCEPT ![to] = @ + stream[s].total_donations]
        /\ creator_paid' =
               [creator_paid EXCEPT ![e] = @ + stream[s].total_donations]
        /\ stream' = [stream EXCEPT ![s] = settle(@, now)]
        /\ UNCHANGED <<now, platform_state, donation, viewer_reward,
                       dispute, deposited, calculated>>

---------------------------------------------------------------------------
(* open_dispute (lib.rs 328-354, accounts 596-616) *)

(* An open_dispute that does not look at the stream's flag. *)
open_dispute_result_unordered(claimant, s, dispute_reason, evidence) ==
    IF s \notin DOMAIN stream
    THEN "AccountNotInitialized"
    ELSE IF <<s, claimant>> \in DOMAIN dispute
    THEN "AccountAlreadyInUse"
    ELSE "Ok"

open_dispute_result(claimant, s, dispute_reason, evidence) ==
    IF s \notin DOMAIN stream
    THEN "AccountNotInitialized"
    ELSE IF <<s, claimant>> \in DOMAIN dispute
    THEN "AccountAlreadyInUse"
    ELSE IF stream[s].is_active
    THEN "StreamStillActive"
    ELSE "Ok"

open_dispute(claimant, s, dispute_reason, evidence) ==
    IF open_dispute_result(claimant, s, dispute_reason, evidence) # "Ok"
    THEN UNCHANGED vars
    ELSE
        /\ dispute' = dispute @@
               (<<s, claimant>> :>
                   [stream |-> s, claimant |-> claimant,
                    reason |-> dispute_reason, evidence |-> evidence,
                    is_resolved |-> FALSE, resolution |-> "",
                    resolved_at |-> 0, resolver |-> DefaultPubkey,
                    timestamp |-> now])
        /\ UNCHANGED <<now, platform_state, stream, escrow, wallet,
                       donation, viewer_reward, deposited, creator_paid,
                       calculated>>

---------------------------------------------------------------------------
(* resolve_dispute (lib.rs 356-408, accounts 618-638) *)

(* A resolve_dispute that does not look at the Dispute's flag. *)
resolve_dispute_result_repeatable(authority, p, dk, s, resolution, viewer_data_corrections, backend_signature) ==
    IF p \notin DOMAIN platform_state \/ dk \notin DOMAIN dispute
       \/ s \notin DOMAIN stream
    THEN "AccountNotInitialized"
    ELSE IF platform_state[p].authority # authority
    THEN "ConstraintHasOne"
    ELSE IF s # dispute[dk].stream
    THEN "ConstraintRaw"
    ELSE "Ok"

resolve_dispute_result(authority, p, dk, s, resolution, viewer_data_corrections, backend_signature) ==
    IF p \notin DOMAIN platform_state \/ dk \notin DOMAIN dispute
       \/ s \notin DOMAIN stream
    THEN "AccountNotInitialized"
    ELSE IF platform_state[p].authority # authority
    THEN "ConstraintHasOne"
    ELSE IF dispute[dk].is_resolved
    THEN "DisputeAlreadyResolved"
    ELSE IF s # dispute[dk].stream
    THEN "ConstraintRaw"
    ELSE IF viewer_data_corrections # <<>>
            /\ ~verify_signature(
                    backend_signer(platform_state[p].authority),
                    create_signature_message(
                        stream[s].id, viewer_data_corrections[1]),
                    backend_signature)
    THEN "InvalidBackendSignature"
    ELSE "Ok"

resolve_dispute(authority, p, dk, s, resolution, viewer_data_corrections, backend_signature) ==
    IF resolve_dispute_result(authority, p, dk, s, resolution,
                              viewer_data_corrections,
                              backend_signature) # "Ok"
    THEN UNCHANGED vars
    ELSE
        /\ dispute' = [dispute EXCEPT ![dk].is_resolved = TRUE,
                                      ![dk].resolution = resolution,
                                      ![dk].resolved_at = now,
                                      ![dk].resolver = authority]
        /\ UNCHANGED <<now, platform_state, stream, escrow, wallet,
                       donation, viewer_reward, deposited, creator_paid,
                       calculated>>

---------------------------------------------------------------------------
(* Inputs.  A universe names the sets the arguments of the instructions    *)
(* are drawn from.                                                         *)

SeqsUpTo(S, n) == UNION {[1..k -> S] : k \in 0..n}

Sign(pubkey, message) == [signer |-> pubkey, message |-> message]

Bumps == {[stream_bump |-> CanonicalBump, escrow_bump |-> CanonicalBump],
          [stream_bump |-> CanonicalBump - 1, escrow_bump |-> CanonicalBump]}

MaxViewers == 2

MaxViewersSettle == 3

ViewerAt == <<"u1", "u2", "u1">>

General ==
    [users |-> Users,
     platforms |-> {"p1"},
     viewers |-> Users,
     claimants |-> {"u2"},
     ids |-> {"s1"},
     fees |-> {5, 101},
     creator_percentages |-> {20, 101},
     watch_percentages |-> {50, 101},
     durations |-> {0, 1, I64_MAX},
     bumps |-> Bumps,
     amounts |-> {0, 1000, U64_MAX},
     viewer_data |->
         SeqsUpTo([address : Users, watch_time : {1},
                   watch_percentage : {10, 90}], MaxViewers),
     corrections |-> {<<>>, << <<>> >>},
     texts |-> {"t"}]

(* The universe of the settlement arithmetic: one creator, every creator   *)
(* percentage, and attestation lists of up to MaxViewersSettle entries.    *)
Settle ==
    [users |-> {"u1"},
     platforms |-> {"p1"},
     viewers |-> Users,
     claimants |-> {},
     ids |-> {"s1"},
     fees |-> {5},
     creator_percentages |-> 0..100,
     watch_percentages |-> {50},
     durations |-> {0},
     bumps |-> {[stream_bump |-> CanonicalBump,
                 escrow_bump |-> CanonicalBump]},
     amounts |-> {101, 1000},
     viewer_data |->
         {vd \in SeqsUpTo([address : Users, watch_time : {1, 30, 70},
                           watch_percentage : {90}]
                          \cup [address : Users, watch_time : {1},
                                watch_percentage : {10}],
                          MaxViewersSettle) :
             \A i \in DOMAIN vd :
                 vd[i].address = ViewerAt[((i - 1) % Len(ViewerAt)) + 1]},
     corrections |-> {},
     texts |-> {}]

(* The universe of dispute resolution: PlatformState accounts can be       *)
(* initialised at both addresses, by either identity; one stream with one  *)
(* donation is settled and disputed.                                       *)
Disputes ==
    [users |-> Users,
     platforms |-> PlatformAccts,
     viewers |-> {},
     claimants |-> Users,
     ids |-> {"s1"},
     fees |-> {5},
     creator_percentages |-> {20},
     watch_percentages |-> {50},
     durations |-> {0},
     bumps |-> {[stream_bump |-> CanonicalBump,
                 escrow_bump |-> CanonicalBump]},
     amounts |-> {1000},
     viewer_data |-> {<<>>},
     corrections |-> {<<>>, << <<>> >>},
     texts |-> {"t"}]

(* The universe of failing settlements: watch times large enough for      *)
(* viewers_amount * watch_time to leave 64 bits, and streams started with  *)
(* either stored bump.                                                     *)
Extreme ==
    [users |-> Users,
     platforms |-> {"p1"},
     viewers |-> Users,
     claimants |-> {},
     ids |-> {"s1"},
     fees |-> {5},
     creator_percentages |-> {0, 20},
     watch_percentages |-> {50},
     durations |-> {0},
     bumps |-> Bumps,
     amounts |-> {1000},
     viewer_data |->
         {vd \in SeqsUpTo([address : Users, watch_time : {1, 2000},
                           watch_percentage : {90}], MaxViewers) :
             \A i \in DOMAIN vd :
                 vd[i].address = ViewerAt[((i - 1) % Len(ViewerAt)) + 1]},
     corrections |-> {},
     texts |-> {}]

(* The universe of two streams: every instruction can be called with the  *)
(* accounts of either stream, or with the stream of one and the escrow of  *)
(* the other.                                                              *)
Pair ==
    [users |-> Users,
     platforms |-> {"p1"},
     viewers |-> Users,
     claimants |-> {"u2"},
     ids |-> StreamIds,
     fees |-> {5},
     creator_percentages |-> {20},
     watch_percentages |-> {50},
     durations |-> {0},
     bumps |-> {[stream_bump |-> CanonicalBump,
                 escrow_bump |-> CanonicalBump]},
     amounts |-> {1000},
     viewer_data |->
         SeqsUpTo([address : {"u2"}, watch_time : {1},
                   watch_percentage : {90}], 1),
     corrections |-> {<<>>},
     texts |-> {"t"}]

---------------------------------------------------------------------------
(* One action per instruction *)

InitializePlatform(U) ==
    \E authority \in U.users, p \in U.platforms, fee \in U.fees :
        initialize_platform(authority, p, fee)

StartStream(U) ==
    \E creator \in U.users, p \in U.platforms, authority \in U.users,
       id \in U.ids, cp \in U.creator_percentages,
       mw \in U.watch_percentages, md \in U.durations, bumps \in U.bumps :
        start_stream(creator, p, authority, id, cp, mw, md, bumps)

Donate(U) ==
    \E donor \in U.users, s \in U.ids, dk \in U.users \X U.ids,
       from \in U.users, e \in U.ids, amount \in U.amounts :
        donate(donor, s, dk, from, e, amount)

(* A call on a stream that does not exist or is settled is rejected by the *)
(* account validation whatever the attestation list is: one list is enough *)
(* there.                                                                  *)
EndStream(U) ==
    \E creator \in U.users, s \in U.ids, p \in U.platforms,
       e \in U.ids, to \in U.users, signed_by \in U.users :
    \E viewer_data \in
           IF s \in DOMAIN stream /\ stream[s].is_active
           THEN U.viewer_data ELSE {<<>>} :
        end_stream(creator, s, p, e, to, viewer_data,
                   Sign(backend_signer(signed_by),
                        create_signature_message(s, viewer_data)))

ClaimReward(U) ==
    \E viewer \in U.viewers, s \in U.ids, r \in 1..Cardinality(StreamIds),
       e \in U.ids, to \in U.viewers :
        claim_reward(viewer, s, r, e, to)

AutoSettleStream(U) ==
    \E settler \in U.users, s \in U.ids, e \in U.ids, to \in U.users,
       timeout_duration \in U.durations :
        auto_settle_stream(settler, s, e, to, timeout_duration)

OpenDispute(U) ==
    \E claimant \in U.claimants, s \in U.ids, reason \in U.texts,
       evidence \in U.texts :
        open_dispute(claimant, s, reason, evidence)

ResolveDispute(U) ==
    \E authority \in U.users, p \in U.platforms,
       dk \in U.ids \X U.claimants, s \in U.ids, resolution \in U.texts,
       corrections \in U.corrections, signed_by \in U.users :
        resolve_dispute(authority, p, dk, s, resolution, corrections,
                        Sign(backend_signer(signed_by),
                             create_signature_message(
                                 s, IF corrections = <<>> THEN <<>>
                                    ELSE corrections[1])))

---------------------------------------------------------------------------
(* Specification *)

Next ==
    \/ Tick
    \/ InitializePlatform(General)
    \/ StartStream(General)
    \/ Donate(General)
    \/ EndStream(General)
    \/ ClaimReward(General)
    \/ AutoSettleStream(General)
    \/ OpenDispute(General)
    \/ ResolveDispute(General)

Spec == Init /\ [][Next]_vars

NextSettle ==
    \/ InitializePlatform(Settle)
    \/ StartStream(Settle)
    \/ Donate(Settle)
    \/ EndStream(Settle)
    \/ ClaimReward(Settle)

SpecSettle == Init /\ [][NextSettle]_vars

NextDispute ==
    \/ InitializePlatform(Disputes)
    \/ StartStream(Disputes)
    \/ Donate(Disputes)
    \/ AutoSettleStream(Disputes)
    \/ OpenDispute(Disputes)
    \/ ResolveDispute(Disputes)

SpecDispute == Init /\ [][NextDispute]_vars

NextFailClosed ==
    \/ InitializePlatform(Extreme)
    \/ StartStream(Extreme)
    \/ Donate(Extreme)
    \/ EndStream(Extreme)
    \/ ClaimReward(Extreme)

SpecFailClosed == Init /\ [][NextFailClosed]_vars

NextPair ==
    \/ InitializePlatform(Pair)
    \/ StartStream(Pair)
    \/ Donate(Pair)
    \/ EndStream(Pair)
    \/ ClaimReward(Pair)
    \/ AutoSettleStream(Pair)
    \/ OpenDispute(Pair)
    \/ ResolveDispute(Pair)

SpecPair == Init /\ [][NextPair]_vars

---------------------------------------------------------------------------
(* Properties *)

RewardsOf(s) == {r \in DOMAIN viewer_reward : viewer_reward[r].stream = s}

RECURSIVE SumAmounts(_)
SumAmounts(R) ==
    IF R = {} THEN 0
    ELSE LET r == CHOOSE x \in R : TRUE
         IN  viewer_reward[r].amount + SumAmounts(R \ {r})

ClaimedSum(s) == SumAmounts({r \in RewardsOf(s) : viewer_reward[r].claimed})

UnclaimedSum(s) ==
    SumAmounts({r \in RewardsOf(s) : ~viewer_reward[r].claimed})

(* C1: funds conservation.  In every reachable state the escrow balance of *)
(* each stream equals the total deposited into it by donate, minus the     *)
(* creator amount paid at settlement, minus the sum of the amounts of its  *)
(* claimed ViewerReward records.                                           *)
C1_FundsConservation ==
    \A s \in DOMAIN stream :
        escrow[s] = deposited[s] - creator_paid[s] - ClaimedSum(s)

(* A settled stream whose creator was paid and one of whose rewards has    *)
(* been claimed.                                                           *)
C1_Witness ==
    \E s \in DOMAIN stream :
        /\ ~stream[s].is_active
        /\ deposited[s] > 0
        /\ creator_paid[s] > 0
        /\ ClaimedSum(s) > 0

(* C2: escrow solvency.  In every reachable state the escrow balance of    *)
(* each stream is at least the sum of the amounts of its unclaimed         *)
(* ViewerReward records, and no claim_reward on an unclaimed reward of a   *)
(* settled stream fails for lack of escrowed funds.                        *)
C2_EscrowSolvency ==
    \A s \in DOMAIN stream :
        /\ escrow[s] >= UnclaimedSum(s)
        /\ \A r \in RewardsOf(s), viewer \in Users, to \in Users :
               (~stream[s].is_active /\ ~viewer_reward[r].claimed)
               => claim_reward_result(viewer, s, r, stream[s].escrow_account,
                                      to) # "InsufficientFunds"

(* A settled stream with an unclaimed reward of positive amount, after the *)
(* creator's share has left the escrow.                                    *)
C2_Witness ==
    \E s \in DOMAIN stream :
        /\ ~stream[s].is_active
        /\ creator_paid[s] > 0
        /\ UnclaimedSum(s) > 0

(* The signatures a caller can present over a message: one by the backend  *)
(* signer derived from each identity.                                      *)
Signatures(message) == {Sign(backend_signer(u), message) : u \in Users}

(* C3: at most one settlement per stream.  A settled stream never becomes  *)
(* active again and is not changed any more; every later end_stream or     *)
(* auto_settle_stream on it fails (with StreamInactive when the accounts   *)
(* passed exist and, for end_stream, the signer is the stream's creator),  *)
(* pays nothing to the creator and creates no ViewerReward for it.         *)
C3_SettledRejects ==
    \A s \in DOMAIN stream :
        ~stream[s].is_active =>
            /\ \A creator \in Users, p \in PlatformAccts, e \in StreamIds,
                  to \in Users, viewer_data \in General.viewer_data :
               \A sig \in Signatures(
                              create_signature_message(s, viewer_data)) :
                   LET res == end_stream_result(creator, s, p, e, to,
                                                viewer_data, sig)
                   IN  /\ res # "Ok"
                       /\ (/\ creator = stream[s].creator
                           /\ p \in DOMAIN platform_state
                           /\ e \in DOMAIN escrow) => res = "StreamInactive"
            /\ \A settler \in Users, e \in StreamIds, to \in Users,
                  timeout_duration \in General.durations :
                   LET res == auto_settle_stream_result(
                                  settler, s, e, to, timeout_duration)
                   IN  /\ res # "Ok"
                       /\ e \in DOMAIN escrow => res = "StreamInactive"

C3_SettledStays ==
    \A s \in DOMAIN stream :
        ~stream[s].is_active =>
            /\ stream'[s] = stream[s]
            /\ creator_paid'[s] = creator_paid[s]
            /\ RewardsOf(s)' = RewardsOf(s)

C3_OneSettlement == []C3_SettledRejects /\ [][C3_SettledStays]_vars

(* A settled stream on which a further end_stream by its creator is        *)
(* rejected with StreamInactive.                                           *)
C3_Witness ==
    \E s \in DOMAIN stream, p \in DOMAIN platform_state :
        /\ ~stream[s].is_active
        /\ stream[s].end_time > 0
        /\ end_stream_result(stream[s].creator, s, p,
                             stream[s].escrow_account, stream[s].creator,
                             <<>>, Sign(backend_signer("u1"), <<s>>))
               = "StreamInactive"

(* What a signature verifier accepts: a signature made by the key over the *)
(* message.                                                                *)
Genuine(pubkey, message, signature) == signature = Sign(pubkey, message)

(* C4: signature rejection.  An end_stream on an active stream whose       *)
(* minimum duration has elapsed, called by the creator with the stream's   *)
(* accounts and a signature that is not the backend signer's signature of  *)
(* the attestation list, fails with InvalidBackendSignature (and so leaves *)
(* the stream, the escrow, the donations and the rewards unchanged).       *)
C4_SignatureRejection ==
    \A s \in DOMAIN stream, p \in DOMAIN platform_state,
       viewer_data \in General.viewer_data :
    \A sig \in Signatures(create_signature_message(s, viewer_data)) :
        (/\ stream[s].is_active
         /\ now >= stream[s].start_time + stream[s].min_stream_duration
         /\ ~Genuine(backend_signer(platform_state[p].authority),
                     create_signature_message(s, viewer_data), sig))
        => end_stream_result(stream[s].creator, s, p,
                             stream[s].escrow_account, stream[s].creator,
                             viewer_data, sig) = "InvalidBackendSignature"

(* The reward of an attestation entry as the settlement rule defines it.   *)
RECURSIVE EligibleWatchTime(_, _)
EligibleWatchTime(viewer_data, min_watch) ==
    IF viewer_data = <<>> THEN 0
    ELSE (IF Head(viewer_data).watch_percentage >= min_watch
          THEN Head(viewer_data).watch_time ELSE 0)
         + EligibleWatchTime(Tail(viewer_data), min_watch)

Pot(st) ==
    st.total_donations
    - ((st.total_donations * st.creator_percentage) \div 100)

EntryReward(viewer_data, i, st) ==
    IF viewer_data[i].watch_percentage >= st.min_watch_percentage
       /\ EligibleWatchTime(viewer_data, st.min_watch_percentage) > 0
    THEN (Pot(st) * viewer_data[i].watch_time)
         \div EligibleWatchTime(viewer_data, st.min_watch_percentage)
    ELSE 0

Rewarded(viewer_data, st) ==
    {i \in DOMAIN viewer_data : EntryReward(viewer_data, i, st) > 0}

(* C5: per-viewer rewards.  A successful end_stream with a positive        *)
(* viewers' pot creates, for each                                          *)
(* eligible viewer of the attestation list whose reward                    *)
(* floor(viewers_amount * watchTime / total_valid_watch_time) is positive, *)
(* one unclaimed ViewerReward record naming that viewer with that amount.  *)
C5_PerViewerStep ==
    \A s \in DOMAIN stream :
        (/\ stream[s].is_active /\ ~stream'[s].is_active
         /\ Pot(stream[s]) > 0) =>
            \A p \in DOMAIN platform_state,
               viewer_data \in Settle.viewer_data :
                end_stream(stream[s].creator, s, p, stream[s].escrow_account,
                           stream[s].creator, viewer_data,
                           Sign(backend_signer(platform_state[p].authority),
                                create_signature_message(s, viewer_data)))
                => LET new == DOMAIN viewer_reward' \ DOMAIN viewer_reward
                   IN  /\ \A i \in Rewarded(viewer_data, stream[s]) :
                              \E r \in new :
                                  viewer_reward'[r] =
                                      [viewer |-> viewer_data[i].address,
                                       stream |-> s,
                                       amount |-> EntryReward(
                                           viewer_data, i, stream[s]),
                                       claimed |-> FALSE]
                       /\ Cardinality({r \in new :
                                          viewer_reward'[r].stream = s})
                              = Cardinality(Rewarded(viewer_data, stream[s]))

C5_PerViewerRewards == [][C5_PerViewerStep]_vars

(* C6: rounding loss only.  Once every ViewerReward of a stream settled by *)
(* end_stream has been claimed, the escrow holds the viewers' pot minus    *)
(* the sum of the rewards computed for the eligible viewers.               *)
C6_RoundingLossOnly ==
    \A s \in DOMAIN stream :
        (/\ ~stream[s].is_active
         /\ \A r \in RewardsOf(s) : viewer_reward[r].claimed)
        => escrow[s] = Pot(stream[s]) - calculated[s]

(* C7: creator split.  A successful end_stream moves exactly               *)
(* floor(total_donations * creator_percentage / 100) from the escrow to    *)
(* the creator (nothing when that is 0) and the viewers' pot is the rest   *)
(* of total_donations.                                                     *)
C7_CreatorSplitStep ==
    \A s \in DOMAIN stream :
        (stream[s].is_active /\ ~stream'[s].is_active) =>
            LET st == stream[s]
                share == (st.total_donations * st.creator_percentage)
                             \div 100
            IN  /\ st.creator_percentage \in 0..100
                /\ escrow'[s] = escrow[s] - share
                /\ creator_paid'[s] = creator_paid[s] + share
                /\ wallet'[st.creator] = wallet[st.creator] + share
                /\ \A u \in Users \ {st.creator} : wallet'[u] = wallet[u]
                /\ viewers_amount(st) = st.total_donations - share
                /\ creator_amount(st) + viewers_amount(st)
                       = st.total_donations

C7_CreatorSplit == [][C7_CreatorSplitStep]_vars

(* A stream settled by end_stream with total_donations 1000 and creator    *)
(* percentage 20: the creator received 200 and 800 was left for viewers.   *)
C7_Witness ==
    \E s \in DOMAIN stream :
        /\ ~stream[s].is_active
        /\ stream[s].total_donations = 1000
        /\ stream[s].creator_percentage = 20
        /\ creator_paid[s] = 200
        /\ escrow[s] + ClaimedSum(s) = 800

(* C8: claim exclusivity.  A claimed ViewerReward is never changed again;  *)
(* the step that sets its flag moves exactly its amount from its stream's  *)
(* escrow to the viewer, and the escrow of a settled stream changes in no  *)
(* other step; every later claim_reward on it fails (with                  *)
(* RewardAlreadyClaimed when called by its viewer for its stream).         *)
C8_ClaimedRejects ==
    \A r \in DOMAIN viewer_reward :
        viewer_reward[r].claimed =>
            \A viewer \in Users, s \in StreamIds, e \in StreamIds,
               to \in Users :
                LET res == claim_reward_result(viewer, s, r, e, to)
                IN  /\ res # "Ok"
                    /\ (/\ viewer = viewer_reward[r].viewer
                        /\ s = viewer_reward[r].stream
                        /\ e \in DOMAIN escrow)
                       => res = "RewardAlreadyClaimed"

Flipped(r) == ~viewer_reward[r].claimed /\ viewer_reward'[r].claimed

C8_ClaimStep ==
    /\ \A r \in DOMAIN viewer_reward :
           /\ viewer_reward[r].claimed
                  => viewer_reward'[r] = viewer_reward[r]
           /\ Flipped(r) =>
                  LET rw == viewer_reward[r]
                  IN  /\ viewer_reward'[r] = [rw EXCEPT !.claimed = TRUE]
                      /\ escrow'[rw.stream] = escrow[rw.stream] - rw.amount
                      /\ wallet'[rw.viewer] = wallet[rw.viewer] + rw.amount
                      /\ \A q \in DOMAIN viewer_reward \ {r} : ~Flipped(q)
    /\ \A s \in DOMAIN stream :
           (~stream[s].is_active /\ escrow'[s] # escrow[s])
           => \E r \in RewardsOf(s) : Flipped(r)

C8_ClaimExclusivity == []C8_ClaimedRejects /\ [][C8_ClaimStep]_vars

(* A claimed reward of positive amount on which a further claim by its     *)
(* viewer is rejected with RewardAlreadyClaimed.                           *)
C8_Witness ==
    \E r \in DOMAIN viewer_reward :
        /\ viewer_reward[r].claimed
        /\ viewer_reward[r].amount > 0
        /\ claim_reward_result(viewer_reward[r].viewer,
                               viewer_reward[r].stream, r,
                               viewer_reward[r].stream,
                               viewer_reward[r].viewer)
               = "RewardAlreadyClaimed"

(* C9: timeout gating.  On an active stream, auto_settle_stream called     *)
(* with the stream's escrow and the creator's token account fails with     *)
(* TimeoutNotReached while now < start_time + timeoutDuration and succeeds *)
(* from then on; the step that settles the stream this way pays the whole  *)
(* total_donations to the creator, creates no ViewerReward and sets        *)
(* end_time to the time of the call.                                       *)
C9_Gate ==
    \A s \in DOMAIN stream, settler \in Users,
       timeout_duration \in 0..MaxTime :
        stream[s].is_active =>
            LET res == auto_settle_stream_result(
                           settler, s, stream[s].escrow_account,
                           stream[s].creator, timeout_duration)
            IN  IF now < stream[s].start_time + timeout_duration
                THEN res = "TimeoutNotReached"
                ELSE res = "Ok"

C9_AutoSettleStep ==
    \A s \in DOMAIN stream :
        (/\ stream[s].is_active /\ ~stream'[s].is_active
         /\ Len(viewer_reward') = Len(viewer_reward))
        => /\ escrow'[s] = escrow[s] - stream[s].total_donations
           /\ wallet'[stream[s].creator]
                  = wallet[stream[s].creator] + stream[s].total_donations
           /\ stream'[s].end_time = now

C9_TimeoutGating == []C9_Gate /\ [][C9_AutoSettleStep]_vars

(* C10 as stated: end_stream on an active stream fails with                *)
(* StreamDurationNotMet whenever now < start_time + min_stream_duration.   *)
C10_Original ==
    \A s \in DOMAIN stream, p \in DOMAIN platform_state,
       viewer_data \in General.viewer_data :
    \A sig \in Signatures(create_signature_message(s, viewer_data)) :
        (/\ stream[s].is_active
         /\ now < stream[s].start_time + stream[s].min_stream_duration)
        => end_stream_result(stream[s].creator, s, p,
                             stream[s].escrow_account, stream[s].creator,
                             viewer_data, sig) = "StreamDurationNotMet"

(* C10: minimum-duration gate.  While now < start_time +                   *)
(* min_stream_duration every end_stream on an active stream fails; called  *)
(* by the creator with the stream's accounts it fails with                 *)
(* StreamDurationNotMet, or with MathOverflow when start_time +            *)
(* min_stream_duration overflows a signed 64-bit integer.  No step settles *)
(* a stream through end_stream earlier than start_time +                   *)
(* min_stream_duration.                                                    *)
C10_Gate ==
    \A s \in DOMAIN stream :
        (/\ stream[s].is_active
         /\ now < stream[s].start_time + stream[s].min_stream_duration)
        => \A creator \in Users, p \in PlatformAccts, e \in StreamIds,
              to \in Users, viewer_data \in General.viewer_data :
           \A sig \in Signatures(create_signature_message(s, viewer_data)) :
               LET res == end_stream_result(creator, s, p, e, to,
                                            viewer_data, sig)
               IN  /\ res # "Ok"
                   /\ (/\ creator = stream[s].creator
                       /\ p \in DOMAIN platform_state
                       /\ e = stream[s].escrow_account
                       /\ to = creator)
                      => res = IF stream[s].start_time
                                    + stream[s].min_stream_duration > I64_MAX
                               THEN "MathOverflow"
                               ELSE "StreamDurationNotMet"

C10_EndStreamStep ==
    \A s \in DOMAIN stream :
        (/\ stream[s].is_active /\ ~stream'[s].is_active
         /\ Len(viewer_reward') > Len(viewer_reward))
        => /\ now >= stream[s].start_time + stream[s].min_stream_duration
           /\ stream'[s].end_time = now

C10_MinDurationGate == []C10_Gate /\ [][C10_EndStreamStep]_vars

(* An active stream whose minimum duration has not elapsed, on which the   *)
(* creator's end_stream is rejected with StreamDurationNotMet.             *)
C10_Witness ==
    \E s \in DOMAIN stream, p \in DOMAIN platform_state :
        /\ stream[s].is_active
        /\ now < stream[s].start_time + stream[s].min_stream_duration
        /\ escrow[s] > 0
        /\ end_stream_result(stream[s].creator, s, p,
                             stream[s].escrow_account, stream[s].creator,
                             <<>>, Sign(backend_signer(
                                            platform_state[p].authority),
                                        <<s>>))
               = "StreamDurationNotMet"

(* C11: donation accounting.  total_donations of a stream never decreases  *)
(* and is frozen once the stream is settled; a step that changes it is a   *)
(* donate on an active stream that increases it by the donated amount,     *)
(* moves that amount from the donor to the stream's escrow and changes     *)
(* nothing else of the stream, and the escrow receives funds in no other   *)
(* step; every donate on a settled stream fails (with StreamInactive when  *)
(* the accounts passed exist).                                             *)
C11_SettledRejects ==
    \A s \in DOMAIN stream :
        ~stream[s].is_active =>
            \A donor \in Users, dk \in DOMAIN donation, from \in Users,
               e \in StreamIds, amount \in General.amounts :
                LET res == donate_result(donor, s, dk, from, e, amount)
                IN  /\ res # "Ok"
                    /\ e \in DOMAIN escrow => res = "StreamInactive"

C11_DonationStep ==
    \A s \in DOMAIN stream :
        LET before == stream[s].total_donations
            after == stream'[s].total_donations
            e == stream[s].escrow_account
        IN  /\ after >= before
            /\ ~stream[s].is_active => after = before
            /\ escrow'[e] > escrow[e] => after - before = escrow'[e] - escrow[e]
            /\ after # before =>
                   /\ stream[s].is_active
                   /\ stream' = [stream EXCEPT ![s].total_donations = after]
                   /\ escrow'[e] = escrow[e] + (after - before)
                   /\ \E donor \in Users :
                          /\ wallet' = [wallet EXCEPT
                                            ![donor] = @ - (after - before)]
                          /\ donation'[<<donor, s>>].amount = after - before

C11_DonationAccounting == []C11_SettledRejects /\ [][C11_DonationStep]_vars

(* A settled stream that received donations while it was active and on     *)
(* which a further donate is rejected with StreamInactive.                 *)
C11_Witness ==
    \E s \in DOMAIN stream :
        /\ ~stream[s].is_active
        /\ stream[s].total_donations = 1000
        /\ deposited[s] = 1000
        /\ donate_result("u1", s, <<"u1", s>>, "u1", s, 1000)
               = "StreamInactive"

(* The values of a u8 percentage argument the validation is checked for.   *)
Percentages == {0, 100, 101, 255}

(* C12: start_stream validation.  With a registry that exists, its         *)
(* authority account and a stream id not in use, start_stream succeeds for *)
(* every creator_percentage <= 100 and min_watch_percentage <= 100 and     *)
(* fails with InvalidFeePercentage or InvalidWatchPercentage when one of   *)
(* them is above 100; no call with a percentage above 100 succeeds.  A     *)
(* step creates at most one stream, active, with total_donations 0 and     *)
(* percentages within 0..100, and a registry's stream_count changes only   *)
(* in such a step, by exactly one.                                         *)
C12_Validation ==
    \A creator \in Users, p \in PlatformAccts, authority \in Users,
       id \in StreamIds, cp \in Percentages, mw \in Percentages :
        LET res == start_stream_result(
                       creator, p, authority, id, cp, mw, 0,
                       [stream_bump |-> CanonicalBump,
                        escrow_bump |-> CanonicalBump])
        IN  /\ (cp > 100 \/ mw > 100) => res # "Ok"
            /\ (/\ p \in DOMAIN platform_state
                /\ authority = platform_state[p].authority
                /\ id \notin DOMAIN stream)
               => res = IF cp > 100 THEN "InvalidFeePercentage"
                        ELSE IF mw > 100 THEN "InvalidWatchPercentage"
                        ELSE "Ok"

C12_StartStep ==
    LET created == DOMAIN stream' \ DOMAIN stream
        counted == {p \in DOMAIN platform_state :
                       platform_state'[p].stream_count
                           # platform_state[p].stream_count}
    IN  /\ Cardinality(created) <= 1
        /\ Cardinality(counted) = Cardinality(created)
        /\ \A id \in created :
               /\ stream'[id].is_active
               /\ stream'[id].total_donations = 0
               /\ stream'[id].creator_percentage <= 100
               /\ stream'[id].min_watch_percentage <= 100
        /\ \A p \in counted :
               platform_state'[p].stream_count
                   = platform_state[p].stream_count + 1

C12_StartStreamValidation == []C12_Validation /\ [][C12_StartStep]_vars

(* A registry that has counted one started stream, where a further         *)
(* start_stream is accepted with both percentages at 100 and rejected with *)
(* either of them at 101.                                                  *)
C12_Witness ==
    \E p \in DOMAIN platform_state, id \in StreamIds \ DOMAIN stream :
        LET a == platform_state[p].authority
            b == [stream_bump |-> CanonicalBump,
                  escrow_bump |-> CanonicalBump]
        IN  /\ platform_state[p].stream_count = 1
            /\ \E s \in DOMAIN stream :
                   stream[s].is_active /\ stream[s].total_donations = 0
            /\ start_stream_result(a, p, a, id, 100, 100, 0, b) = "Ok"
            /\ start_stream_result(a, p, a, id, 101, 100, 0, b)
                   = "InvalidFeePercentage"
            /\ start_stream_result(a, p, a, id, 100, 101, 0, b)
                   = "InvalidWatchPercentage"

(* C13: dispute ordering.  On an active stream every open_dispute fails    *)
(* with StreamStillActive, and every Dispute that exists refers to a       *)
(* stream that exists and is settled.                                      *)
C13_DisputeOrdering ==
    /\ \A s \in DOMAIN stream :
           stream[s].is_active =>
               \A claimant \in Users, reason \in General.texts,
                  evidence \in General.texts :
                   open_dispute_result(claimant, s, reason, evidence)
                       = "StreamStillActive"
    /\ \A d \in DOMAIN dispute :
           /\ dispute[d].stream \in DOMAIN stream
           /\ ~stream[dispute[d].stream].is_active

(* A Dispute opened on a settled stream, and a second claimant whose       *)
(* open_dispute on that stream would be accepted.                          *)
C13_Witness ==
    \E d \in DOMAIN dispute :
        /\ ~stream[dispute[d].stream].is_active
        /\ dispute[d].claimant = "u2"
        /\ open_dispute_result("u1", dispute[d].stream, "t", "t") = "Ok"

(* The PlatformState account of the deployment; its authority is the       *)
(* platform operator.                                                      *)
Registry == "p1"

(* C14: operator-only resolution.  Once the deployment's PlatformState is  *)
(* initialised, a step that resolves a Dispute is taken by the authority   *)
(* recorded in it, and a resolve_dispute on an unresolved Dispute signed   *)
(* by any other identity fails with UnauthorizedAccess.                    *)
C14_OthersRejected ==
    \A dk \in DOMAIN dispute, authority \in Users, p \in DOMAIN platform_state,
       corrections \in Disputes.corrections :
        (/\ Registry \in DOMAIN platform_state
         /\ authority # platform_state[Registry].authority
         /\ ~dispute[dk].is_resolved)
        => resolve_dispute_result(
               authority, p, dk, dispute[dk].stream, "t", corrections,
               Sign(backend_signer(authority),
                    create_signature_message(
                        dispute[dk].stream,
                        IF corrections = <<>> THEN <<>>
                        ELSE corrections[1])))
               = "UnauthorizedAccess"

C14_ResolveStep ==
    \A dk \in DOMAIN dispute :
        (~dispute[dk].is_resolved /\ dispute'[dk].is_resolved)
        => (Registry \in DOMAIN platform_state
            => dispute'[dk].resolver = platform_state[Registry].authority)

C14_OperatorOnly == []C14_OthersRejected /\ [][C14_ResolveStep]_vars

(* C15: resolve exactly once.  A resolved Dispute is never changed again   *)
(* (its flag, resolution, resolver and resolved_at stay as they are), and  *)
(* every resolve_dispute on it fails, with DisputeAlreadyResolved when it  *)
(* is signed by the authority of the PlatformState passed.                 *)
C15_ResolvedRejects ==
    \A dk \in DOMAIN dispute :
        dispute[dk].is_resolved =>
            \A authority \in Users, p \in PlatformAccts, s \in StreamIds,
               resolution \in General.texts,
               corrections \in General.corrections, signed_by \in Users :
                LET res == resolve_dispute_result(
                               authority, p, dk, s, resolution, corrections,
                               Sign(backend_signer(signed_by),
                                    create_signature_message(
                                        s, IF corrections = <<>> THEN <<>>
                                           ELSE corrections[1])))
                IN  /\ res # "Ok"
                    /\ (/\ p \in DOMAIN platform_state
                        /\ s \in DOMAIN stream
                        /\ authority = platform_state[p].authority)
                       => res = "DisputeAlreadyResolved"

C15_ResolvedStays ==
    \A dk \in DOMAIN dispute :
        /\ dispute[dk].is_resolved => dispute'[dk] = dispute[dk]
        /\ (~dispute[dk].is_resolved /\ dispute'[dk].is_resolved)
           => /\ dispute'[dk].resolved_at = now
              /\ dispute'[dk].resolver # DefaultPubkey

C15_ResolveOnce == []C15_ResolvedRejects /\ [][C15_ResolvedStays]_vars

(* A Dispute resolved at time 0, on which the operator's resolve_dispute   *)
(* at a later time is rejected with DisputeAlreadyResolved.                *)
C15_Witness ==
    \E dk \in DOMAIN dispute, p \in DOMAIN platform_state :
        /\ dispute[dk].is_resolved
        /\ dispute[dk].resolver = platform_state[p].authority
        /\ now > dispute[dk].resolved_at
        /\ resolve_dispute_result(
               platform_state[p].authority, p, dk, dispute[dk].stream, "t",
               <<>>, Sign(backend_signer(platform_state[p].authority),
                          <<dispute[dk].stream>>))
               = "DisputeAlreadyResolved"

(* C16: Donation records are append-only.  No step changes or removes a    *)
(* Donation record that exists, and a step in which a donate succeeds      *)
(* (the stream's total_donations grows) adds exactly one Donation record,  *)
(* holding the donated amount.                                             *)
C16_DonationStep ==
    /\ \A k \in DOMAIN donation :
           k \in DOMAIN donation' /\ donation'[k] = donation[k]
    /\ \A s \in DOMAIN stream :
           stream'[s].total_donations > stream[s].total_donations
           => /\ Cardinality(DOMAIN donation' \ DOMAIN donation) = 1
              /\ \A k \in DOMAIN donation' \ DOMAIN donation :
                     /\ donation'[k].stream = s
                     /\ donation'[k].amount
                            = stream'[s].total_donations
                              - stream[s].total_donations

C16_AppendOnly == [][C16_DonationStep]_vars

(* C17: positive donations.  Every Donation record a step writes (creates  *)
(* or changes) has amount > 0 after the step.                              *)
C17_WriteStep ==
    \A k \in DOMAIN donation' :
        (k \notin DOMAIN donation \/ donation'[k] # donation[k])
        => donation'[k].amount > 0

C17_PositiveDonations == [][C17_WriteStep]_vars

(* The attestation list without its entries below the stream's minimum     *)
(* watch percentage.                                                       *)
RECURSIVE AboveMinimum(_, _)
AboveMinimum(viewer_data, min_watch) ==
    IF viewer_data = <<>> THEN <<>>
    ELSE (IF Head(viewer_data).watch_percentage >= min_watch
          THEN <<Head(viewer_data)>> ELSE <<>>)
         \o AboveMinimum(Tail(viewer_data), min_watch)

(* C18: eligibility filter.  For an active stream and every attestation    *)
(* list, total_valid_watch_time is the sum of the watch times of the       *)
(* entries at or above min_watch_percentage, so the reward computed for    *)
(* each of them, the sum of the rewards and the ViewerReward written are   *)
(* those of the list without its other entries, and the ViewerReward       *)
(* written is empty or is the reward of an entry at or above the minimum.  *)
C18_EligibilityFilter ==
    \A s \in DOMAIN stream :
        stream[s].is_active =>
            \A viewer_data \in Settle.viewer_data :
                LET st == stream[s]
                    kept == AboveMinimum(viewer_data, st.min_watch_percentage)
                    total == total_valid_watch_time(viewer_data, st)
                    written == rewards_of(viewer_data, st)
                IN  /\ total = EligibleWatchTime(viewer_data,
                                                 st.min_watch_percentage)
                    /\ total = total_valid_watch_time(kept, st)
                    /\ rewards_calculated(viewer_data, st)
                           = rewards_calculated(kept, st)
                    /\ written = rewards_of(kept, st)
                    /\ \/ written.acct = EmptyViewerReward
                       \/ \E i \in DOMAIN viewer_data :
                              /\ viewer_data[i].watch_percentage
                                     >= st.min_watch_percentage
                              /\ written.acct.viewer = viewer_data[i].address
                              /\ written.acct.amount
                                     = EntryReward(viewer_data, i, st)

(* A stream settled by end_stream in which the second entry of the         *)
(* attestation list received the whole viewers' pot: the first entry was   *)
(* below the minimum watch percentage and its watch time was not counted.  *)
C18_Witness ==
    \E s \in DOMAIN stream :
    \E r \in RewardsOf(s) :
        /\ ~stream[s].is_active
        /\ Pot(stream[s]) > 0
        /\ viewer_reward[r].viewer = ViewerAt[2]
        /\ viewer_reward[r].amount = Pot(stream[s])

(* Amounts of a donate call near the largest unsigned 64-bit integer.      *)
HugeAmounts == {U64_MAX - 999, U64_MAX}

(* C19 as stated: a donate on an active stream, by a donor with its own    *)
(* Donation and token accounts and the stream's escrow, fails with         *)
(* MathOverflow when total_donations + amount exceeds the largest unsigned *)
(* 64-bit integer.                                                         *)
C19_Original ==
    \A s \in DOMAIN stream, donor \in Users, amount \in HugeAmounts :
        (/\ stream[s].is_active
         /\ stream[s].total_donations + amount > U64_MAX)
        => donate_result(donor, s, <<donor, s>>, donor,
                         stream[s].escrow_account, amount) = "MathOverflow"

(* C19: no wrap-around in the donation total.  When total_donations +      *)
(* amount exceeds the largest unsigned 64-bit integer every donate on the  *)
(* stream fails; called by a donor with its own Donation and token         *)
(* accounts and the stream's escrow it fails in the token transfer, for    *)
(* insufficient funds, before the checked addition is reached.  In every   *)
(* step total_donations stays within 64 bits, does not decrease, and grows *)
(* by what the escrow received.                                            *)
C19_Rejected ==
    \A s \in DOMAIN stream, amount \in HugeAmounts :
        (/\ stream[s].is_active
         /\ stream[s].total_donations + amount > U64_MAX)
        => \A donor \in Users, dk \in DOMAIN donation, from \in Users,
              e \in StreamIds :
               LET res == donate_result(donor, s, dk, from, e, amount)
               IN  /\ res # "Ok"
                   /\ (/\ dk = <<donor, s>>
                       /\ from = donor
                       /\ e = stream[s].escrow_account)
                      => res = "InsufficientFunds"

C19_TotalStep ==
    \A s \in DOMAIN stream :
        /\ stream'[s].total_donations \in 0..U64_MAX
        /\ stream'[s].total_donations >= stream[s].total_donations
        /\ stream'[s].total_donations - stream[s].total_donations
               = deposited'[stream[s].escrow_account]
                 - deposited[stream[s].escrow_account]

C19_NoWrapAround == []C19_Rejected /\ [][C19_TotalStep]_vars

(* An active stream holding donations on which a donate of the largest     *)
(* amount is rejected by the token transfer.                               *)
C19_Witness ==
    \E s \in DOMAIN stream :
        /\ stream[s].is_active
        /\ stream[s].total_donations = 1000
        /\ escrow[s] = 1000
        /\ stream[s].total_donations + U64_MAX > U64_MAX
        /\ donate_result("u1", s, <<"u1", s>>, "u1", s, U64_MAX)
               = "InsufficientFunds"

(* A viewer's reward whose product viewers_amount * watch_time does not    *)
(* fit in 64 bits.                                                         *)
RewardOverflows(viewer_data, st) ==
    /\ Pot(st) > 0
    /\ \E i \in DOMAIN viewer_data :
           /\ viewer_data[i].watch_percentage >= st.min_watch_percentage
           /\ Pot(st) * viewer_data[i].watch_time > U64_MAX

(* C20: fail-closed settlement.  An end_stream by the creator of an active *)
(* stream with the stream's accounts fails when the transfer of a positive *)
(* creator amount out of escrow is rejected, and fails with MathOverflow   *)
(* when a viewer's reward overflows after that transfer; a step that       *)
(* leaves a stream active pays nothing out of its escrow, pays its creator *)
(* nothing and creates no ViewerReward, and an end_stream that fails       *)
(* changes no account.                                                     *)
C20_MustFail ==
    \A s \in DOMAIN stream, p \in DOMAIN platform_state,
       viewer_data \in Extreme.viewer_data :
        LET st == stream[s]
            res == end_stream_result(
                       st.creator, s, p, st.escrow_account, st.creator,
                       viewer_data,
                       Sign(backend_signer(platform_state[p].authority),
                            create_signature_message(s, viewer_data)))
            share == (st.total_donations * st.creator_percentage) \div 100
        IN  st.is_active =>
                /\ (share > 0 /\ st.bumps.stream_bump # CanonicalBump)
                   => res = "PrivilegeEscalation"
                /\ (/\ ~(share > 0 /\ st.bumps.stream_bump # CanonicalBump)
                    /\ RewardOverflows(viewer_data, st))
                   => res = "MathOverflow"

C20_FailedStep ==
    /\ \A s \in DOMAIN stream :
           (stream[s].is_active /\ stream'[s].is_active)
           => /\ escrow'[s] >= escrow[s]
              /\ creator_paid'[s] = creator_paid[s]
              /\ wallet'[stream[s].creator] <= wallet[stream[s].creator]
              /\ viewer_reward' = viewer_reward
    /\ \A s \in DOMAIN stream, p \in DOMAIN platform_state,
          viewer_data \in Extreme.viewer_data :
           LET sig == Sign(backend_signer(platform_state[p].authority),
                           create_signature_message(s, viewer_data))
           IN  (/\ end_stream_result(
                       stream[s].creator, s, p, stream[s].escrow_account,
                       stream[s].creator, viewer_data, sig) # "Ok"
                /\ end_stream(stream[s].creator, s, p,
                              stream[s].escrow_account, stream[s].creator,
                              viewer_data, sig))
               => UNCHANGED accounts

C20_FailClosed == []C20_MustFail /\ [][C20_FailedStep]_vars

(* An active stream holding 1000 with a creator share of 200, on which an  *)
(* end_stream whose only viewer has watch time 2000 fails with             *)
(* MathOverflow after the creator transfer step: the escrow still holds    *)
(* 1000, the creator has been paid nothing and no ViewerReward exists.     *)
C20_Witness ==
    \E s \in DOMAIN stream, p \in DOMAIN platform_state :
        LET vd == <<[address |-> ViewerAt[1], watch_time |-> 2000,
                     watch_percentage |-> 90]>>
        IN  /\ stream[s].is_active
            /\ stream[s].total_donations = 1000
            /\ creator_amount(stream[s]) = 200
            /\ end_stream_result(
                   stream[s].creator, s, p, stream[s].escrow_account,
                   stream[s].creator, vd,
                   Sign(backend_signer(platform_state[p].authority),
                        create_signature_message(s, vd))) = "MathOverflow"
            /\ escrow[s] = 1000
            /\ creator_paid[s] = 0
            /\ viewer_reward = <<>>

(* A step changes something of stream B: its record, its escrow balance,   *)
(* one of its ViewerReward records or one of its Disputes.                 *)
Touched(B) ==
    \/ stream'[B] # stream[B]
    \/ escrow'[B] # escrow[B]
    \/ \E r \in DOMAIN viewer_reward' :
           /\ viewer_reward'[r].stream = B
           /\ (r \notin DOMAIN viewer_reward
               \/ viewer_reward'[r] # viewer_reward[r])
    \/ \E r \in DOMAIN viewer_reward :
           viewer_reward[r].stream = B /\ viewer_reward'[r] # viewer_reward[r]
    \/ \E d \in DOMAIN dispute' :
           /\ dispute'[d].stream = B
           /\ (d \notin DOMAIN dispute \/ dispute'[d] # dispute[d])

(* The step is an instruction called with stream A as its stream account,  *)
(* whatever the other accounts and arguments are.                          *)
InvokedOn(A) ==
    \/ \E donor \in Users, dk \in DOMAIN donation, from \in Users,
          e \in StreamIds, amount \in Pair.amounts :
           donate(donor, A, dk, from, e, amount)
    \/ \E creator \in Users, p \in DOMAIN platform_state, e \in StreamIds,
          to \in Users, viewer_data \in Pair.viewer_data :
           end_stream(creator, A, p, e, to, viewer_data,
                      Sign(backend_signer(platform_state[p].authority),
                           create_signature_message(A, viewer_data)))
    \/ \E viewer \in Users, r \in DOMAIN viewer_reward, e \in StreamIds,
          to \in Users :
           claim_reward(viewer, A, r, e, to)
    \/ \E settler \in Users, e \in StreamIds, to \in Users,
          timeout_duration \in Pair.durations :
           auto_settle_stream(settler, A, e, to, timeout_duration)
    \/ \E claimant \in Users :
           open_dispute(claimant, A, "t", "t")
    \/ \E authority \in Users, p \in DOMAIN platform_state,
          dk \in DOMAIN dispute :
           resolve_dispute(authority, p, dk, A, "t", <<>>,
                           Sign(backend_signer(authority), <<A>>))

(* C21: stream isolation.  No donate, end_stream, auto_settle_stream,      *)
(* claim_reward, open_dispute or resolve_dispute called on a stream A      *)
(* changes the record, the escrow balance, a ViewerReward or a Dispute of  *)
(* another stream B, whichever accounts it is called with; a step changes  *)
(* at most one stream.                                                     *)
C21_IsolationStep ==
    \A B \in DOMAIN stream :
        Touched(B) =>
            \A A \in StreamIds \ {B} :
                /\ ~InvokedOn(A)
                /\ A \in DOMAIN stream => ~Touched(A)

C21_StreamIsolation == [][C21_IsolationStep]_vars

(* Two settled streams, both funded: the escrow of the first has paid a    *)
(* claimed reward while the escrow of the second still holds the whole     *)
(* viewers' pot of its own unclaimed reward.                               *)
C21_Witness ==
    \E A \in DOMAIN stream, B \in DOMAIN stream :
        /\ A # B
        /\ ~stream[A].is_active /\ ~stream[B].is_active
        /\ ClaimedSum(A) > 0
        /\ escrow[A] = 0
        /\ UnclaimedSum(B) > 0
        /\ escrow[B] = UnclaimedSum(B)

(* C22: PlatformState integrity.  The fee of every PlatformState is within *)
(* 0..100; no step removes a PlatformState, changes its authority or fee   *)
(* or decreases its stream_count; and a step that changes a PlatformState  *)
(* is a call signed by its authority: the only signer of start_stream, the *)
(* one instruction that writes it after creation, is the creator of the    *)
(* stream started.                                                         *)
C22_FeeInRange ==
    \A p \in DOMAIN platform_state :
        platform_state[p].platform_fee \in 0..100

C22_RegistryStep ==
    \A p \in DOMAIN platform_state :
        /\ p \in DOMAIN platform_state'
        /\ platform_state'[p].authority = platform_state[p].authority
        /\ platform_state'[p].platform_fee = platform_state[p].platform_fee
        /\ platform_state'[p].stream_count >= platform_state[p].stream_count
        /\ platform_state'[p] # platform_state[p]
           => \E id \in DOMAIN stream' \ DOMAIN stream :
                  stream'[id].creator = platform_state[p].authority

C22_RegistryIntegrity == []C22_FeeInRange /\ [][C22_RegistryStep]_vars

(* C23: auto_settle_stream takes its timeout from the caller and accepts   *)
(* any signer.  On every active stream, at every time from start_time on,  *)
(* a call by any identity with timeout_duration 0, the stream's escrow and *)
(* the creator's token account succeeds, also before start_time +          *)
(* min_stream_duration; the step it takes pays the whole total_donations   *)
(* to the creator and creates no ViewerReward.                             *)
C23_Accepted ==
    \A s \in DOMAIN stream, settler \in Users :
        (stream[s].is_active /\ now >= stream[s].start_time)
        => auto_settle_stream_result(settler, s, stream[s].escrow_account,
                                     stream[s].creator, 0) = "Ok"

C23_SettleStep ==
    \A s \in DOMAIN stream, settler \in Users :
        (/\ stream[s].is_active
         /\ ~stream'[s].is_active
         /\ auto_settle_stream(settler, s, stream[s].escrow_account,
                               stream[s].creator, 0))
        => /\ wallet'[stream[s].creator]
                  = wallet[stream[s].creator] + stream[s].total_donations
           /\ escrow'[s] = escrow[s] - stream[s].total_donations
           /\ viewer_reward' = viewer_reward

C23_AnyoneSettlesAtOnce == []C23_Accepted /\ [][C23_SettleStep]_vars

(* C24: only the stream's creator settles a stream through end_stream, and *)
(* the creator payout of a settlement goes to the creator alone.  No       *)
(* end_stream call made by an identity other than the stored creator is    *)
(* accepted, whatever token account, registry and attestation it names;    *)
(* and in every step that settles a stream, by end_stream or by            *)
(* auto_settle_stream and whoever invokes it, what leaves the escrow is    *)
(* credited to the token account owned by the stored creator and no other  *)
(* token account changes.                                                  *)
C24_CreatorSigns ==
    \A s \in DOMAIN stream :
        stream[s].is_active
        => \A caller \in Users \ {stream[s].creator},
              p \in DOMAIN platform_state, to \in Users,
              signed_by \in Users, viewer_data \in {<<>>} :
               end_stream_result(caller, s, p, stream[s].escrow_account, to,
                   viewer_data,
                   Sign(backend_signer(signed_by),
                        create_signature_message(s, viewer_data))) # "Ok"

C24_PayoutStep ==
    \A s \in DOMAIN stream :
        (stream[s].is_active /\ ~stream'[s].is_active)
        => /\ escrow'[s] <= escrow[s]
           /\ \A u \in Users :
                  wallet'[u] = IF u = stream[s].creator
                               THEN wallet[u] + (escrow[s] - escrow'[s])
                               ELSE wallet[u]

C24_CreatorOnly == []C24_CreatorSigns /\ [][C24_PayoutStep]_vars

C24_Witness ==
    \E s \in DOMAIN stream :
        /\ ~stream[s].is_active
        /\ stream[s].creator = "u2"
        /\ Len(viewer_reward) = 1
        /\ creator_paid[s] > 0
        /\ escrow[s] = deposited[s] - creator_paid[s]
        /\ wallet["u2"] = InitialBalance + creator_paid[s]
        /\ wallet["u1"] = InitialBalance - deposited[s]

(* C25: undistributed funds are locked after settlement.  In every step    *)
(* taken from a state where a stream is settled, the stream's escrow       *)
(* balance does not increase; it decreases only when one unclaimed         *)
(* ViewerReward of the stream becomes claimed, and then by that reward's   *)
(* amount; so the escrow balance minus the sum of the stream's unclaimed   *)
(* ViewerReward amounts keeps its value.  When no unclaimed reward is      *)
(* left (in particular after an end_stream that found no eligible viewer)  *)
(* the escrow balance never changes again.                                 *)
C25_LockedStep ==
    \A s \in DOMAIN stream :
        ~stream[s].is_active
        => /\ escrow'[s] <= escrow[s]
           /\ escrow'[s] # escrow[s]
              => \E r \in RewardsOf(s) :
                     /\ ~viewer_reward[r].claimed
                     /\ viewer_reward'[r].claimed
                     /\ viewer_reward[r].amount = escrow[s] - escrow'[s]
           /\ escrow'[s] - UnclaimedSum(s)' = escrow[s] - UnclaimedSum(s)
           /\ UnclaimedSum(s) = 0 => escrow'[s] = escrow[s]

C25_UndistributedLocked == [][C25_LockedStep]_vars

C25_Witness ==
    \E s \in DOMAIN stream, c \in DOMAIN dispute :
        /\ ~stream[s].is_active
        /\ stream[s].creator_percentage < 100
        /\ Len(viewer_reward) = 1
        /\ RewardsOf(s) = {}
        /\ viewers_amount(stream[s]) > 0
        /\ escrow[s] = viewers_amount(stream[s])
        /\ c[1] = s
        /\ dispute[c].is_resolved

====
